---- MODULE Spec2Model ----
(***************************************************************************)
(* Model of data_import.py: one run of main(), which lists the prepared    *)
(* files of a dataset, fetches them into a temporary directory, groups     *)
(* and resolves the variants, verifies and decodes them, validates the     *)
(* CSVs, packages the archive and writes the two companion files.          *)
(*                                                                         *)
(* A file name is a sequence of tokens (<<"a", ".csv", ".gz">> is          *)
(* "a.csv.gz"); no token is a prefix of another, so comparing names token  *)
(* by token is comparing the strings.  File contents are sequences of      *)
(* symbols (numbers).                                                      *)
(***************************************************************************)
EXTENDS Integers, Sequences, FiniteSets, TLC

\* ------------------------------------------------------------------ bounds

\* Longest listing payload (entries of the remote directory) of a run.
MaxFiles == 2

\* ------------------------------------------------------------ file names

\* str.lower() of a token.
Lower(t) ==
    CASE t = ".CSV" -> ".csv"
      [] OTHER -> t

\* str.lower() of a name.
LowerName(n) == [i \in 1..Len(n) |-> Lower(n[i])]

\* n.endswith(suf), for a suffix made of whole tokens.
EndsWith(n, suf) ==
    /\ Len(n) >= Len(suf)
    /\ SubSeq(n, Len(n) - Len(suf) + 1, Len(n)) = suf

\* Tokens that start with ".part".
IsPartTok(t) == t \in {".part001", ".part002"}

\* The positions where ".csv.zst.part" starts in n.
MarkerAt(n) ==
    {i \in 1..(Len(n) - 2) :
        n[i] = ".csv" /\ n[i + 1] = ".zst" /\ IsPartTok(n[i + 2])}

\* part_marker in n
HasPartMarker(n) == MarkerAt(n) # {}

\* n.index(part_marker): the first occurrence.
MarkerIndex(n) == CHOOSE i \in MarkerAt(n) : \A j \in MarkerAt(n) : i <= j

\* The position of a token in the order of the strings (code points: "." is
\* below the letters, upper case below lower case).
TokRank(t) ==
    CASE t = ".CSV" -> 1
      [] t = ".csv" -> 2
      [] t = ".gz" -> 3
      [] t = ".part001" -> 4
      [] t = ".part002" -> 5
      [] t = ".sha256" -> 6
      [] t = ".txt" -> 7
      [] t = ".zst" -> 8
      [] t = "a" -> 9
      [] t = "b" -> 10
      [] t = "c" -> 11

\* m < n as Python compares the two strings.
RECURSIVE NameLess(_, _)
NameLess(m, n) ==
    IF m = <<>> THEN n # <<>>
    ELSE IF n = <<>> THEN FALSE
    ELSE IF m[1] # n[1] THEN TokRank(m[1]) < TokRank(n[1])
    ELSE NameLess(Tail(m), Tail(n))

\* s with x inserted before the first element that is not below it.
RECURSIVE InsertSorted(_, _)
InsertSorted(x, s) ==
    IF s = <<>> THEN <<x>>
    ELSE IF NameLess(s[1], x) THEN <<s[1]>> \o InsertSorted(x, Tail(s))
    ELSE <<x>> \o s

\* sorted(s) of a sequence of names (sorted(..., key=lambda p: p.name)).
RECURSIVE SortNames(_)
SortNames(s) ==
    IF s = <<>> THEN <<>>
    ELSE InsertSorted(s[Len(s)], SortNames(SubSeq(s, 1, Len(s) - 1)))

\* The elements of a sequence.
Range(s) == {s[i] : i \in 1..Len(s)}

\* ------------------------------------------------------- catalog reader

\* The name is one the catalog reader recognises as data.
IsData(name) ==
    LET lower == LowerName(name) IN
    \/ EndsWith(lower, <<".csv">>)
    \/ EndsWith(lower, <<".csv", ".gz">>)
    \/ EndsWith(lower, <<".csv", ".zst">>)
    \/ HasPartMarker(lower)

\* The name is one the catalog reader recognises as a checksum file.
IsSha(name) == EndsWith(LowerName(name), <<".csv", ".zst", ".sha256">>)

\* The loop of _list_prepared_files over the payload's items.
RECURSIVE FilterItems(_)
FilterItems(items) ==
    IF items = <<>> THEN <<>>
    ELSE LET item == items[1]
             rest == FilterItems(Tail(items))
         IN  IF item.type # "file" THEN rest
             ELSE IF item.name = <<>> THEN rest
             ELSE IF ~(IsData(item.name) \/ IsSha(item.name)) THEN rest
             ELSE <<[name |-> item.name,
                     kind |-> IF IsSha(item.name) THEN "sha" ELSE "data"]>>
                  \o rest

\* What _list_prepared_files returns for a decoded payload.
ListedFiles(payload) ==
    IF payload.isList THEN FilterItems(payload.items) ELSE <<>>

\* -------------------------------------------------------- file contents

\* The symbols of a file's contents: a field character, the comma, the
\* newline, the space, and the symbols that open a gzip and a zstd stream.
\* A symbol from DigestBase on is the hexadecimal text of one digest.
FieldChar == 1
Comma == 2
NL == 3
GzipMagic == 4
ZstdMagic == 5
Space == 6
DigestBase == 100

\* The last element of a non-empty sequence.
Last(s) == s[Len(s)]

\* A one-to-one numbering of the contents (hashlib.sha256 without collisions).
RECURSIVE Encode(_)
Encode(c) ==
    IF c = <<>> THEN 0
    ELSE LET a == c[1]
             b == Encode(Tail(c))
         IN  (((a + b) * (a + b + 1)) \div 2) + b + 1

\* _file_sha256: the hex digest of the bytes, as one word of text.
FileSha256(c) == <<DigestBase + Encode(c)>>

IsWhite(x) == x \in {Space, NL}

\* text.lstrip()
RECURSIVE LStrip(_)
LStrip(c) ==
    IF c # <<>> /\ IsWhite(c[1]) THEN LStrip(Tail(c)) ELSE c

\* The first whitespace-delimited word of a text that starts with one.
RECURSIVE FirstWord(_)
FirstWord(c) ==
    IF c = <<>> \/ IsWhite(c[1]) THEN <<>>
    ELSE <<c[1]>> \o FirstWord(Tail(c))

\* _read_sha256: the first word of the checksum file, or ValueError when
\* the stripped text is empty.
ReadSha256(c) ==
    LET text == LStrip(c) IN
    IF text = <<>> THEN [ok |-> FALSE, word |-> <<>>]
    ELSE [ok |-> TRUE, word |-> FirstWord(text)]

\* _verify_sha256 returns (TRUE) or raises ValueError (FALSE).
VerifySha256(data, shaText) ==
    LET expected == ReadSha256(shaText) IN
    /\ expected.ok
    /\ FileSha256(data) = expected.word

\* A stream decoder: the stream opens with its magic symbol and the rest is
\* the payload; an empty input decodes to nothing; anything else raises.
Decode(magic, c) ==
    IF c = <<>> THEN [ok |-> TRUE, data |-> <<>>]
    ELSE IF c[1] = magic THEN [ok |-> TRUE, data |-> Tail(c)]
    ELSE [ok |-> FALSE, data |-> <<>>]

\* gzip.open(src).read()
Gunzip(c) == Decode(GzipMagic, c)

\* zstd.ZstdDecompressor().copy_stream
Unzstd(c) == Decode(ZstdMagic, c)

\* The lines of a text that ends with a newline.
RECURSIVE Lines(_, _)
Lines(c, cur) ==
    IF c = <<>> THEN <<>>
    ELSE IF c[1] = NL THEN <<cur>> \o Lines(Tail(c), <<>>)
    ELSE Lines(Tail(c), Append(cur, c[1]))

\* len(row) for one line as csv.reader reads it: an empty line is the empty
\* row, otherwise one more field than commas.
Columns(line) ==
    IF line = <<>> THEN 0
    ELSE 1 + Cardinality({i \in 1..Len(line) : line[i] = Comma})

\* The file after the newline repair of _validate_csv_file.
Repaired(c) == IF c # <<>> /\ Last(c) # NL THEN Append(c, NL) ELSE c

\* _validate_csv_file returns (TRUE) or raises ValueError (FALSE): the file
\* is empty, does not decode as text, has a header without columns, or has a
\* row whose column count differs from the header's.
ValidCsv(c) ==
    /\ c # <<>>
    /\ \A i \in 1..Len(c) : c[i] \notin {GzipMagic, ZstdMagic}
    /\ LET rows == Lines(Repaired(c), <<>>) IN
       /\ Columns(rows[1]) # 0
       /\ \A i \in 2..Len(rows) : Columns(rows[i]) = Columns(rows[1])

\* ------------------------------------------------------- variant grouper

\* The base name the grouper derives from a data file's name: the part before
\* the first multipart marker, or the name without the first of the suffixes
\* .csv, .csv.gz, .csv.zst it ends with, or the name itself.
BaseOf(name) ==
    LET lower == LowerName(name) IN
    IF HasPartMarker(lower) THEN SubSeq(name, 1, MarkerIndex(lower) - 1)
    ELSE IF EndsWith(lower, <<".csv">>) THEN SubSeq(name, 1, Len(name) - 1)
    ELSE IF EndsWith(lower, <<".csv", ".gz">>) THEN SubSeq(name, 1, Len(name) - 2)
    ELSE IF EndsWith(lower, <<".csv", ".zst">>) THEN SubSeq(name, 1, Len(name) - 2)
    ELSE name

\* The names of the data files of the catalog that were downloaded, in
\* catalog order.
RECURSIVE DataNames(_, _)
DataNames(files, have) ==
    IF files = <<>> THEN <<>>
    ELSE LET rest == DataNames(Tail(files), have) IN
         IF files[1].kind # "data" THEN rest
         ELSE IF files[1].name \notin have THEN rest
         ELSE <<files[1].name>> \o rest

\* The names with the given base, in the order of the sequence.
RECURSIVE GroupOf(_, _)
GroupOf(names, base) ==
    IF names = <<>> THEN <<>>
    ELSE IF BaseOf(names[1]) = base THEN <<names[1]>> \o GroupOf(Tail(names), base)
    ELSE GroupOf(Tail(names), base)

\* by_base: every base name with its members in catalog order.
ByBase(files, have) ==
    LET names == DataNames(files, have) IN
    [b \in {BaseOf(names[i]) : i \in 1..Len(names)} |-> GroupOf(names, b)]

\* The least name of a non-empty set.
MinName(S) == CHOOSE m \in S : \A n \in S : n = m \/ NameLess(m, n)

\* The names of a set in ascending order (sorted(by_base.items())).
RECURSIVE SortedSeq(_)
SortedSeq(S) ==
    IF S = {} THEN <<>>
    ELSE <<MinName(S)>> \o SortedSeq(S \ {MinName(S)})

\* -------------------------------------------------------- format resolver

\* The members of paths whose lower-cased name ends with suf, in order.
RECURSIVE WithSuffix(_, _)
WithSuffix(paths, suf) ==
    IF paths = <<>> THEN <<>>
    ELSE IF EndsWith(LowerName(paths[1]), suf)
         THEN <<paths[1]>> \o WithSuffix(Tail(paths), suf)
    ELSE WithSuffix(Tail(paths), suf)

\* The members of paths whose lower-cased name holds the multipart marker.
RECURSIVE WithMarker(_)
WithMarker(paths) ==
    IF paths = <<>> THEN <<>>
    ELSE IF HasPartMarker(LowerName(paths[1]))
         THEN <<paths[1]>> \o WithMarker(Tail(paths))
    ELSE WithMarker(Tail(paths))

\* The resolver with the gzip test ahead of the plain test.
ChosenGzFirst(paths) ==
    IF WithSuffix(paths, <<".csv", ".gz">>) # <<>>
    THEN [src |-> <<WithSuffix(paths, <<".csv", ".gz">>)[1]>>, typ |-> "gz"]
    ELSE IF WithSuffix(paths, <<".csv">>) # <<>>
    THEN [src |-> <<WithSuffix(paths, <<".csv">>)[1]>>, typ |-> "csv"]
    ELSE IF WithSuffix(paths, <<".csv", ".zst">>) # <<>>
    THEN [src |-> <<WithSuffix(paths, <<".csv", ".zst">>)[1]>>, typ |-> "zst"]
    ELSE IF WithMarker(paths) # <<>>
    THEN [src |-> WithMarker(paths), typ |-> "zst_parts"]
    ELSE [src |-> <<paths[1]>>, typ |-> "none"]

\* chosen: the representation the resolver selects for a group.
Chosen(paths) ==
    IF WithSuffix(paths, <<".csv">>) # <<>>
    THEN [src |-> <<WithSuffix(paths, <<".csv">>)[1]>>, typ |-> "csv"]
    ELSE IF WithSuffix(paths, <<".csv", ".gz">>) # <<>>
    THEN [src |-> <<WithSuffix(paths, <<".csv", ".gz">>)[1]>>, typ |-> "gz"]
    ELSE IF WithSuffix(paths, <<".csv", ".zst">>) # <<>>
    THEN [src |-> <<WithSuffix(paths, <<".csv", ".zst">>)[1]>>, typ |-> "zst"]
    ELSE IF WithMarker(paths) # <<>>
    THEN [src |-> WithMarker(paths), typ |-> "zst_parts"]
    ELSE [src |-> <<paths[1]>>, typ |-> "none"]

\* arcname: the member name of a group.
Arcname(base) == base \o <<".csv">>

\* The bytes of the files of a sequence of names, one after the other.
RECURSIVE Concat(_, _)
Concat(names, fs) ==
    IF names = <<>> THEN <<>>
    ELSE fs[names[1]] \o Concat(Tail(names), fs)

\* The reassembly without the sort: the parts as the catalog listed them.
ReassembleAsListed(parts, fs) == Concat(parts, fs)

\* The reassembled stream of a multipart group: its parts in the order of
\* their file names.
Reassemble(parts, fs) == Concat(SortNames(parts), fs)

\* The names of added that hold ".sha256".
BadNames(added) == {added[i] : i \in {j \in 1..Len(added) : ".sha256" \in Range(added[j])}}

\* ------------------------------------------------------------- the remote

\* The entries a listing payload is drawn from.
Entries ==
    { [name |-> <<"a", ".csv">>, type |-> "file"],
      [name |-> <<"b", ".CSV">>, type |-> "file"],
      [name |-> <<"a", ".csv", ".gz">>, type |-> "file"],
      [name |-> <<"a", ".CSV", ".gz">>, type |-> "file"],
      [name |-> <<"a", ".csv", ".zst">>, type |-> "file"],
      [name |-> <<"a", ".csv", ".zst", ".sha256">>, type |-> "file"],
      [name |-> <<"b", ".csv", ".zst", ".part001">>, type |-> "file"],
      [name |-> <<"b", ".csv", ".zst", ".part002">>, type |-> "file"],
      [name |-> <<"b", ".csv", ".zst", ".sha256">>, type |-> "file"],
      [name |-> <<"a", ".sha256", ".csv", ".gz">>, type |-> "file"],
      [name |-> <<"a", ".txt">>, type |-> "file"],
      [name |-> <<"c", ".csv">>, type |-> "dir"] }

\* The sequences of distinct entries, up to MaxFiles long.
RECURSIVE Listings(_)
Listings(n) ==
    IF n = 0 THEN {<<>>}
    ELSE Listings(n - 1) \cup
         {Append(s, e) : s \in {t \in Listings(n - 1) : Len(t) = n - 1},
                          e \in Entries} 

\* The payloads the listing endpoint may answer with: a list of distinct
\* entries, or JSON that is not a list.
Payloads ==
    {[isList |-> TRUE, items |-> s] :
        s \in {t \in Listings(MaxFiles) : \A i, j \in 1..Len(t) : t[i] = t[j] => i = j}}
    \cup {[isList |-> FALSE, items |-> <<>>]}

\* A well-formed CSV ("x\n"), its zstd stream, and that stream's checksum line.
GoodCsv == <<FieldChar, NL>>
GoodZst == <<ZstdMagic>> \o GoodCsv

\* The bytes the remote may serve under a name.
RemoteContents(name) ==
    LET lower == LowerName(name) IN
    IF IsSha(name)
    THEN {<<>>, FileSha256(GoodZst) \o <<Space, FieldChar, NL>>, FileSha256(GoodCsv)}
    ELSE IF HasPartMarker(lower) THEN {<<ZstdMagic>>, GoodCsv}
    ELSE IF EndsWith(lower, <<".csv", ".zst">>) THEN {GoodZst, GoodCsv, <<ZstdMagic>>}
    ELSE IF EndsWith(lower, <<".csv", ".gz">>)
    THEN {<<GzipMagic, FieldChar>>, GoodCsv, <<GzipMagic>>}
    ELSE {GoodCsv, <<>>, <<FieldChar, NL, Comma, NL>>}

\* --------------------------------------------------------------- the run

VARIABLES
    pc,                \* where the run is
    response,          \* what the listing endpoint answered
    prepared_files,    \* the catalog _list_prepared_files returned
    zstd_available,    \* whether "import zstandard" succeeded
    tmpdir,            \* "none", "exists" or "removed"
    files,             \* the files of tmpdir: name -> bytes
    downloaded_paths,  \* the names fetched so far, in order
    by_base,           \* base name -> members
    gi,                \* the group the loop over sorted(by_base) is at
    chosen,            \* the representation chosen for that group
    zsrc,              \* the .zst file to verify and decompress
    sha_path,          \* the checksum file found for it
    added,             \* the targets decoded so far
    resolved,          \* for every target: the format and sources it came from
    vi,                \* the target the validation loop is at
    ti,                \* the member the packaging loop is at
    ret,               \* what _download_prepared_dataset returns
    message,           \* the failure the run reported
    raised,            \* the exception that is propagating
    archive,           \* the archive at data_path
    attachments,       \* the attachments file
    order_file,        \* the order file
    exit_code          \* the exit status of the process

vars == <<pc, response, prepared_files, zstd_available, tmpdir, files, downloaded_paths,
          by_base, gi, chosen, zsrc, sha_path, added, resolved, vi, ti, ret,
          message, raised, archive, attachments, order_file, exit_code>>

\* A directory without files.
NoFiles == [n \in {} |-> <<>>]

\* The directory after name was written with bytes c.
Write(fs, name, c) ==
    [n \in DOMAIN fs \cup {name} |-> IF n = name THEN c ELSE fs[n]]

\* No representation chosen.
NoChoice == [src |-> <<>>, typ |-> "none"]

\* An output file that this run has not created.
Absent == [state |-> "absent", members |-> <<>>]

\* The listing endpoint has not been asked, or the request failed.
NoResponse == [status |-> "none", isList |-> FALSE, items |-> <<>>]
FailedResponse == [status |-> "error", isList |-> FALSE, items |-> <<>>]

\* The bases in the order the resolver loop visits them.
Bases == SortedSeq(DOMAIN by_base)

Init ==
    /\ pc = "start"
    /\ response = NoResponse
    /\ prepared_files = <<>>
    /\ zstd_available = FALSE
    /\ tmpdir = "none"
    /\ files = NoFiles
    /\ downloaded_paths = <<>>
    /\ by_base = NoFiles
    /\ gi = 1
    /\ chosen = NoChoice
    /\ zsrc = <<>>
    /\ sha_path = <<>>
    /\ added = <<>>
    /\ resolved = <<>>
    /\ vi = 1
    /\ ti = 1
    /\ ret = "unset"
    /\ message = "none"
    /\ raised = "none"
    /\ archive = Absent
    /\ attachments = "absent"
    /\ order_file = [state |-> "absent", n |-> 0]
    /\ exit_code = -1

\* The variables of the outputs and of main.
outs == <<archive, attachments, order_file, exit_code>>

\* The variables of the loops over the groups.
loopvars == <<by_base, gi, chosen, zsrc, sha_path, added, resolved, vi, ti>>

\* "return None" that leaves the function without its finally block.
ReturnNoneDirect(msg) ==
    /\ message' = msg
    /\ ret' = "None"
    /\ pc' = "main"

\* "return None" inside the try block, after reporting msg.
ReturnNone(msg) ==
    /\ message' = msg
    /\ ret' = "None"
    /\ pc' = "finally"

\* An exception leaves the try block.
Raise(exc) ==
    /\ raised' = exc
    /\ pc' = "finally"

\* The listing fails (HTTP error, network error, undecodable body):
\* _list_prepared_files raises, the caller prints it and returns None.
ListError ==
    /\ pc = "start"
    /\ response' = FailedResponse
    /\ message' = "list_error"
    /\ ret' = "None"
    /\ pc' = "main"
    /\ UNCHANGED <<prepared_files, zstd_available, tmpdir, files,
                   downloaded_paths, loopvars, raised, outs>>

\* The listing answers: the catalog is filtered from the payload; an empty
\* catalog is reported and None returned, otherwise the run goes on.
ListFiles ==
    /\ pc = "start"
    /\ \E payload \in Payloads :
        /\ response' = [status |-> "ok", isList |-> payload.isList,
                        items |-> payload.items]
        /\ prepared_files' = ListedFiles(payload)
        /\ IF ListedFiles(payload) = <<>>
           THEN /\ message' = "no_files"
                /\ ret' = "None"
                /\ pc' = "main"
           ELSE /\ pc' = "mkdtemp"
                /\ UNCHANGED <<message, ret>>
    /\ UNCHANGED <<zstd_available, tmpdir, files, downloaded_paths, loopvars,
                   raised, outs>>

\* The temporary directory is made and zstandard imported, or not.
MakeTmp ==
    /\ pc = "mkdtemp"
    /\ tmpdir' = "exists"
    /\ zstd_available' \in BOOLEAN
    /\ pc' = "fetch"
    /\ UNCHANGED <<response, prepared_files, files, downloaded_paths, loopvars, ret,
                   message, raised, outs>>

\* The next file of the catalog is downloaded into tmpdir.
FetchOk ==
    /\ pc = "fetch"
    /\ Len(downloaded_paths) < Len(prepared_files)
    /\ LET item == prepared_files[Len(downloaded_paths) + 1] IN
       /\ \E c \in RemoteContents(item.name) : files' = Write(files, item.name, c)
       /\ downloaded_paths' = Append(downloaded_paths, item.name)
    /\ UNCHANGED <<pc, response, prepared_files, zstd_available, tmpdir, loopvars, ret,
                   message, raised, outs>>

\* A failed download that is reported and skipped: the loop goes on.
FetchFailContinue ==
    /\ pc = "fetch"
    /\ Len(downloaded_paths) < Len(prepared_files)
    /\ downloaded_paths' =
           Append(downloaded_paths, prepared_files[Len(downloaded_paths) + 1].name)
    /\ files' = Write(files, prepared_files[Len(downloaded_paths) + 1].name, <<>>)
    /\ message' = "fetch_failed"
    /\ UNCHANGED <<pc, response, prepared_files, zstd_available, tmpdir, loopvars,
                   ret, raised, outs>>

\* The download of the next file fails, before or after its destination was
\* opened: download_file returns False and the run returns None.
FetchFail ==
    /\ pc = "fetch"
    /\ Len(downloaded_paths) < Len(prepared_files)
    /\ LET item == prepared_files[Len(downloaded_paths) + 1] IN
       \E opened \in BOOLEAN :
           files' = IF opened THEN Write(files, item.name, <<>>) ELSE files
    /\ ReturnNone("fetch_failed")
    /\ UNCHANGED <<response, prepared_files, zstd_available, tmpdir, downloaded_paths,
                   loopvars, raised, outs>>

\* All files are fetched: the data files are grouped by base name.
Group ==
    /\ pc = "fetch"
    /\ Len(downloaded_paths) = Len(prepared_files)
    /\ by_base' = ByBase(prepared_files, Range(downloaded_paths))
    /\ gi' = 1
    /\ pc' = "groups"
    /\ UNCHANGED <<response, prepared_files, zstd_available, tmpdir, files,
                   downloaded_paths, chosen, zsrc, sha_path, added, resolved,
                   vi, ti, ret, message, raised, outs>>

\* The target of the current group.
Target == Arcname(Bases[gi])

\* The target of the current group was written: it is added and the loop
\* moves to the next group.
AddTarget ==
    /\ added' = Append(added, Target)
    /\ resolved' = Append(resolved, [name |-> Target, typ |-> chosen.typ,
                                     src |-> chosen.src, zst |-> zsrc,
                                     sha |-> sha_path])
    /\ gi' = gi + 1
    /\ pc' = "groups"

\* The resolver chooses the representation of the next group.
ResolveGroup ==
    /\ pc = "groups"
    /\ gi <= Len(Bases)
    /\ LET c == Chosen(by_base[Bases[gi]]) IN
       /\ chosen' = c
       /\ zsrc' = IF c.typ = "zst" THEN c.src[1] ELSE <<>>
       /\ pc' = CASE c.typ = "csv" -> "copy"
                  [] c.typ = "gz" -> "gunzip"
                  [] c.typ = "zst" -> "sha_lookup"
                  [] c.typ = "zst_parts" -> "concat"
                  [] OTHER -> "copy"
    /\ sha_path' = <<>>
    /\ UNCHANGED <<response, prepared_files, zstd_available, tmpdir, files,
                   downloaded_paths, by_base, gi, added, resolved, vi, ti, ret,
                   message, raised, outs>>

\* shutil.copy2(src, target): raises SameFileError when both are the same
\* file, otherwise the target holds the source's bytes.
CopyFile ==
    /\ pc = "copy"
    /\ LET src == chosen.src[1] IN
       IF src = Target
       THEN /\ Raise("SameFileError")
            /\ UNCHANGED <<files, gi, added, resolved>>
       ELSE /\ files' = Write(files, Target, files[src])
            /\ AddTarget
            /\ UNCHANGED raised
    /\ UNCHANGED <<response, prepared_files, zstd_available, tmpdir, downloaded_paths,
                   by_base, chosen, zsrc, sha_path, vi, ti, ret, message, outs>>

\* The gzip member is decompressed into the target, which is opened (and so
\* emptied) first; a source that is no gzip stream raises BadGzipFile.
GunzipFile ==
    /\ pc = "gunzip"
    /\ LET r == Gunzip(files[chosen.src[1]]) IN
       IF r.ok
       THEN /\ files' = Write(files, Target, r.data)
            /\ AddTarget
            /\ UNCHANGED raised
       ELSE /\ files' = Write(files, Target, <<>>)
            /\ Raise("BadGzipFile")
            /\ UNCHANGED <<gi, added, resolved>>
    /\ UNCHANGED <<response, prepared_files, zstd_available, tmpdir, downloaded_paths,
                   by_base, chosen, zsrc, sha_path, vi, ti, ret, message, outs>>

\* The parts of a multipart group are concatenated into <base>.csv.zst.
ConcatParts ==
    /\ pc = "concat"
    /\ LET temp_zst == Bases[gi] \o <<".csv", ".zst">> IN
       /\ files' = Write(files, temp_zst, Reassemble(chosen.src, files))
       /\ zsrc' = temp_zst
    /\ pc' = "sha_lookup"
    /\ UNCHANGED <<response, prepared_files, zstd_available, tmpdir, downloaded_paths,
                   by_base, gi, chosen, sha_path, added, resolved, vi, ti, ret,
                   message, raised, outs>>

\* The name of the checksum file of the .zst file.
ShaName(src) == src \o <<".sha256">>

\* downloaded_by_name.get(sha_name)
ShaLookup(name, have) == IF name \in have THEN name ELSE <<>>

\* The checksum file of the .zst file is looked up among the downloads; when
\* there is none the run reports it and returns None.
FindSha ==
    /\ pc = "sha_lookup"
    /\ LET found == ShaLookup(ShaName(zsrc), Range(downloaded_paths)) IN
       IF found = <<>>
       THEN /\ ReturnNone("missing_checksum")
            /\ UNCHANGED sha_path
       ELSE /\ sha_path' = found
            /\ pc' = "verify"
            /\ UNCHANGED <<ret, message>>
    /\ UNCHANGED <<response, prepared_files, zstd_available, tmpdir, files,
                   downloaded_paths, by_base, gi, chosen, zsrc, added, resolved,
                   vi, ti, raised, outs>>

\* The verification that accepts every digest.
ChecksumOkSkipped(data, shaText) == TRUE

\* Whether the try block around _verify_sha256 ends without ValueError.
ChecksumOk(data, shaText) == VerifySha256(data, shaText)

\* The digest of the .zst file is compared with the checksum file; a
\* mismatch or an empty checksum file is reported and the run returns None.
Verify ==
    /\ pc = "verify"
    /\ IF ChecksumOk(files[zsrc], files[sha_path])
       THEN /\ pc' = "decompress"
            /\ UNCHANGED <<ret, message>>
       ELSE ReturnNone("checksum_failed")
    /\ UNCHANGED <<response, prepared_files, zstd_available, tmpdir, files,
                   downloaded_paths, loopvars, raised, outs>>

\* "zstd_available and zstd is not None"
CanDecompress(avail) == avail

\* The verified .zst file is decompressed into the target; without zstandard
\* the run reports it and returns None; a source that is no zstd stream
\* raises, after the target was opened.
Decompress ==
    /\ pc = "decompress"
    /\ IF CanDecompress(zstd_available)
       THEN LET r == Unzstd(files[zsrc]) IN
            IF r.ok
            THEN /\ files' = Write(files, Target, r.data)
                 /\ AddTarget
                 /\ UNCHANGED <<ret, message, raised>>
            ELSE /\ files' = Write(files, Target, <<>>)
                 /\ Raise("ZstdError")
                 /\ UNCHANGED <<gi, added, resolved, ret, message>>
       ELSE /\ ReturnNone("no_zstandard")
            /\ UNCHANGED <<files, gi, added, resolved, raised>>
    /\ UNCHANGED <<response, prepared_files, zstd_available, tmpdir, downloaded_paths,
                   by_base, chosen, zsrc, sha_path, vi, ti, outs>>

\* After the last group: a target whose name holds ".sha256" is reported and
\* the run returns None; otherwise validation starts.
Guard ==
    /\ pc = "groups"
    /\ gi > Len(Bases)
    /\ IF BadNames(added) # {}
       THEN /\ ReturnNone("checksum_packaged")
            /\ UNCHANGED vi
       ELSE /\ pc' = "validate"
            /\ vi' = 1
            /\ UNCHANGED <<ret, message>>
    /\ UNCHANGED <<response, prepared_files, zstd_available, tmpdir, files,
                   downloaded_paths, by_base, gi, chosen, zsrc, sha_path, added,
                   resolved, ti, raised, outs>>

\* The next target is validated, and given its final newline when it lacks
\* one; a file that fails is reported and the run returns None.
Validate ==
    /\ pc = "validate"
    /\ vi <= Len(added)
    /\ LET c == files[added[vi]] IN
       /\ files' = Write(files, added[vi], Repaired(c))
       /\ IF ValidCsv(c)
          THEN /\ vi' = vi + 1
               /\ UNCHANGED <<pc, ret, message>>
          ELSE /\ ReturnNone("validation_failed")
               /\ UNCHANGED vi
    /\ UNCHANGED <<response, prepared_files, zstd_available, tmpdir, downloaded_paths,
                   by_base, gi, chosen, zsrc, sha_path, added, resolved, ti,
                   raised, outs>>

\* The order in which the targets become members of the archive.
MemberOrder(names) == SortNames(names)

\* All targets are valid: the archive is opened for writing at data_path,
\* unless the output location refuses it (OSError).
PackageOpen ==
    /\ pc = "validate"
    /\ vi > Len(added)
    /\ \E ok \in BOOLEAN :
        IF ok
        THEN /\ archive' = [state |-> "open", members |-> <<>>]
             /\ ti' = 1
             /\ pc' = "package"
             /\ UNCHANGED raised
        ELSE /\ Raise("OSError")
             /\ UNCHANGED <<archive, ti>>
    /\ UNCHANGED <<response, prepared_files, zstd_available, tmpdir, files,
                   downloaded_paths, by_base, gi, chosen, zsrc, sha_path, added,
                   resolved, vi, ret, message, attachments, order_file,
                   exit_code>>

\* The next target, in sorted order, is added to the archive; when the write
\* fails (OSError) the with statement closes the archive as it is.
PackageAdd ==
    /\ pc = "package"
    /\ ti <= Len(added)
    /\ LET name == MemberOrder(added)[ti] IN
       \E ok \in BOOLEAN :
        IF ok
        THEN /\ archive' = [archive EXCEPT !.members =
                               Append(@, [name |-> name, data |-> files[name]])]
             /\ ti' = ti + 1
             /\ UNCHANGED <<pc, raised>>
        ELSE /\ archive' = [archive EXCEPT !.state = "closed"]
             /\ Raise("OSError")
             /\ UNCHANGED ti
    /\ UNCHANGED <<response, prepared_files, zstd_available, tmpdir, files,
                   downloaded_paths, by_base, gi, chosen, zsrc, sha_path, added,
                   resolved, vi, ret, message, attachments, order_file,
                   exit_code>>

\* Every target was added: the archive is closed and the targets returned.
PackageClose ==
    /\ pc = "package"
    /\ ti > Len(added)
    /\ archive' = [archive EXCEPT !.state = "closed"]
    /\ ret' = "added"
    /\ pc' = "finally"
    /\ UNCHANGED <<response, prepared_files, zstd_available, tmpdir, files,
                   downloaded_paths, loopvars, message, raised, attachments,
                   order_file, exit_code>>

\* The finally block: shutil.rmtree(tmpdir).  Then the function returns to
\* main, or the exception ends the process.
Finally ==
    /\ pc = "finally"
    /\ tmpdir' = "removed"
    /\ files' = NoFiles
    /\ IF raised # "none"
       THEN /\ pc' = "exit"
            /\ exit_code' = 1
       ELSE /\ pc' = "main"
            /\ UNCHANGED exit_code
    /\ UNCHANGED <<response, prepared_files, zstd_available, downloaded_paths, loopvars,
                   ret, message, raised, archive, attachments, order_file>>

\* main after the call: with a result it goes on to the companion files,
\* with None it exits with status 1.
MainCheck ==
    /\ pc = "main"
    /\ IF ret = "added"
       THEN /\ pc' = "attachments"
            /\ UNCHANGED exit_code
       ELSE /\ pc' = "exit"
            /\ exit_code' = 1
    /\ UNCHANGED <<response, prepared_files, zstd_available, tmpdir, files,
                   downloaded_paths, loopvars, ret, message, raised, archive,
                   attachments, order_file>>

\* The empty attachments file is written, unless the output location refuses
\* it (OSError), which ends the process.
WriteAttachments ==
    /\ pc = "attachments"
    /\ \E ok \in BOOLEAN :
        IF ok
        THEN /\ attachments' = "written"
             /\ pc' = "order"
             /\ UNCHANGED <<raised, exit_code>>
        ELSE /\ raised' = "OSError"
             /\ pc' = "exit"
             /\ exit_code' = 1
             /\ UNCHANGED attachments
    /\ UNCHANGED <<response, prepared_files, zstd_available, tmpdir, files,
                   downloaded_paths, loopvars, ret, message, archive,
                   order_file>>

\* The order file, a shuffle of 1..len(downloaded), is written, unless the
\* output location refuses it (OSError); then main returns.
WriteOrder ==
    /\ pc = "order"
    /\ \E ok \in BOOLEAN :
        IF ok
        THEN /\ order_file' = [state |-> "written", n |-> Len(added)]
             /\ exit_code' = 0
             /\ UNCHANGED raised
        ELSE /\ raised' = "OSError"
             /\ exit_code' = 1
             /\ UNCHANGED order_file
    /\ pc' = "exit"
    /\ UNCHANGED <<response, prepared_files, zstd_available, tmpdir, files,
                   downloaded_paths, loopvars, ret, message, archive,
                   attachments>>

Next ==
    \/ ListError
    \/ ListFiles
    \/ MakeTmp
    \/ FetchOk
    \/ FetchFail
    \/ Group
    \/ ResolveGroup
    \/ CopyFile
    \/ GunzipFile
    \/ ConcatParts
    \/ FindSha
    \/ Verify
    \/ Decompress
    \/ Guard
    \/ Validate
    \/ PackageOpen
    \/ PackageAdd
    \/ PackageClose
    \/ Finally
    \/ MainCheck
    \/ WriteAttachments
    \/ WriteOrder

Spec == Init /\ [][Next]_vars

\* ---------------------------------------------------------------- claims

\* The run is over.
Exited == pc = "exit"

\* The run ended with status 0.
Succeeded == Exited /\ exit_code = 0

\* The names of the members of the archive, in order.
MemberNames == [i \in 1..Len(archive.members) |-> archive.members[i].name]

\* The archive is closed and holds one member per group.
ArchiveComplete ==
    /\ archive.state = "closed"
    /\ MemberNames = SortedSeq({Arcname(b) : b \in DOMAIN by_base})

\* None of the three output files was created.
NothingWritten ==
    /\ archive = Absent
    /\ attachments = "absent"
    /\ order_file.state = "absent"

\* The members of a group whose name holds the multipart marker.
AllParts(g) == {g[i] : i \in {j \in 1..Len(g) : HasPartMarker(LowerName(g[j]))}}

\* The group the resolver loop is at.
CurrentGroup == by_base[Bases[gi]]

\* The run is between the resolution of a group and the end of its decoding.
InGroup == pc \in {"copy", "gunzip", "concat", "sha_lookup", "verify", "decompress"}

\* C1: at exit, either the archive is complete and both companion files are
\* written, or none of the three files was written by the run.
C1_AllOrNothing ==
    Exited =>
        \/ ArchiveComplete /\ attachments = "written" /\ order_file.state = "written"
        \/ NothingWritten

\* The stream z was checked against the downloaded checksum file s = z.sha256:
\* the digest of its bytes is the first word of s.
Verified(z, s) ==
    /\ s = z \o <<".sha256">>
    /\ s \in Range(downloaded_paths)
    /\ s \in DOMAIN files
    /\ z \in DOMAIN files
    /\ LStrip(files[s]) # <<>>
    /\ FirstWord(LStrip(files[s])) = <<DigestBase + Encode(files[z])>>

C3_State ==
    /\ Len(downloaded_paths) <= Len(prepared_files)
    /\ \A i \in 1..Len(downloaded_paths) :
           downloaded_paths[i] = prepared_files[i].name
    /\ message = "fetch_failed" =>
           /\ pc \in {"finally", "main", "exit"}
           /\ Len(downloaded_paths) < Len(prepared_files)
           /\ by_base = NoFiles
           /\ added = <<>>
           /\ NothingWritten
           /\ Exited => exit_code = 1

\* C3: files are fetched one at a time in catalog order, and once a fetch has
\* failed nothing more is fetched, grouped, decoded or validated and no
\* output file is written.
C3_FirstFailureAborts ==
    /\ [](C3_State)
    /\ [][message = "fetch_failed" =>
             UNCHANGED <<downloaded_paths, by_base, added, resolved, archive,
                         attachments, order_file>>]_vars

\* A run whose second fetch failed, at its exit.
C3_Witness ==
    /\ Exited
    /\ message = "fetch_failed"
    /\ Len(downloaded_paths) = 1
    /\ Len(prepared_files) = 2

\* The catalog in another order.
Reordered(f) == [i \in 1..Len(prepared_files) |-> prepared_files[f[i]]]

\* C4: for every other order of the same catalog, every group resolves to
\* the same format and the same source files.
C4_OrderIndependent ==
    pc = "groups" =>
        \A f \in Permutations(1..Len(prepared_files)) :
            LET other == ByBase(Reordered(f), Range(downloaded_paths)) IN
            /\ DOMAIN other = DOMAIN by_base
            /\ \A b \in DOMAIN by_base :
                   /\ Chosen(other[b]).typ = Chosen(by_base[b]).typ
                   /\ Range(Chosen(other[b]).src) = Range(Chosen(by_base[b]).src)

\* C5: the decode step of a plain group completes with the target holding
\* the bytes of the chosen .csv file, and the run goes on.
C5_PlainCopied ==
    /\ raised # "SameFileError"
    /\ (pc = "groups" /\ resolved # <<>> /\ Last(resolved).typ = "csv") =>
           files[Last(resolved).name] = files[Last(resolved).src[1]]

\* C6: an unreachable listing endpoint or a payload that is not a list is
\* reported as a catalog error, a list without recognised files as "no files
\* found"; either way the run fails and writes no archive.
C6_ListingFailureDistinct ==
    pc # "start" =>
        /\ (response.status = "error" \/ ~response.isList) =>
               message = "list_error" /\ NothingWritten
        /\ (response.status = "ok" /\ response.isList /\ prepared_files = <<>>) =>
               message = "no_files" /\ NothingWritten

\* The place of a name in the preference order, by its suffix.
SuffixRank(n) ==
    LET lower == LowerName(n) IN
    IF EndsWith(lower, <<".csv">>) THEN 1
    ELSE IF EndsWith(lower, <<".csv", ".gz">>) THEN 2
    ELSE IF EndsWith(lower, <<".csv", ".zst">>) THEN 3
    ELSE IF HasPartMarker(lower) THEN 4
    ELSE 5

\* The place of a format in the preference order.
TypRank(typ) ==
    CASE typ = "csv" -> 1
      [] typ = "gz" -> 2
      [] typ = "zst" -> 3
      [] typ = "zst_parts" -> 4
      [] typ = "none" -> 5

\* The best place any member of a group has.
BestRank(g) ==
    CHOOSE r \in {SuffixRank(g[i]) : i \in 1..Len(g)} :
        \A i \in 1..Len(g) : r <= SuffixRank(g[i])

\* C7: the format chosen for a group is the most preferred one that any of
\* its members has (plain, gzip, zstd, multipart, fallback); a single-file
\* choice is one member of that format, a multipart choice is all the parts.
C7_Preference ==
    InGroup =>
        /\ TypRank(chosen.typ) = BestRank(CurrentGroup)
        /\ chosen.typ # "zst_parts" =>
               /\ Len(chosen.src) = 1
               /\ chosen.src[1] \in Range(CurrentGroup)
               /\ SuffixRank(chosen.src[1]) = BestRank(CurrentGroup)
        /\ chosen.typ = "zst_parts" => Range(chosen.src) = AllParts(CurrentGroup)

\* A group with a gzip member and a less preferred member, resolved as gzip.
C7_Witness ==
    /\ pc = "gunzip"
    /\ chosen.typ = "gz"
    /\ \E i \in 1..Len(CurrentGroup) : SuffixRank(CurrentGroup[i]) > 2

\* C8: once _download_prepared_dataset has been left, by return or by
\* exception, the temporary directory it made and its files are gone.
C8_ScratchRemoved ==
    pc \in {"main", "attachments", "order", "exit"} =>
        /\ tmpdir # "exists"
        /\ files = NoFiles

\* A run that made its temporary directory and ended by a reported failure.
C8_Witness ==
    /\ Exited
    /\ tmpdir = "removed"
    /\ message \in {"missing_checksum", "checksum_failed", "no_zstandard",
                    "checksum_packaged", "validation_failed", "fetch_failed"}

\* C9: the reassembled stream of a multipart group is the concatenation of
\* all its parts, each once, in ascending order of their file names.
C9_PartsInNameOrder ==
    (pc \in {"sha_lookup", "verify", "decompress"} /\ chosen.typ = "zst_parts") =>
        LET parts == AllParts(CurrentGroup)
            k == Cardinality(parts)
        IN  \E s \in [1..k -> parts] :
                /\ \A i, j \in 1..k : i < j => NameLess(s[i], s[j])
                /\ files[zsrc] = Concat(s, files)

\* Two parts with different bytes, listed as part002, part001, reassembled.
C9_Witness ==
    /\ pc = "sha_lookup"
    /\ chosen.typ = "zst_parts"
    /\ chosen.src = << <<"b", ".csv", ".zst", ".part002">>,
                       <<"b", ".csv", ".zst", ".part001">> >>
    /\ files[chosen.src[1]] # files[chosen.src[2]]

\* The catalog holds a data file.
HasData == \E i \in 1..Len(prepared_files) : prepared_files[i].kind = "data"

\* C10: a run over a catalog without a data file fails and writes no archive
\* (stated for the runs in which no exception is raised), so a successful run
\* packages at least one file and its order file has N >= 1.
C10_NoDataFails ==
    /\ (Exited /\ ~HasData /\ raised = "none") => exit_code = 1 /\ archive = Absent
    /\ Succeeded => Len(archive.members) >= 1 /\ order_file.n >= 1

====
